---- MODULE Spec2Model ----
(***************************************************************************)
(* Model of LambdaFunction.py: an S3-triggered handler that reads a CSV   *)
(* object, drops pending/cancelled orders that are not newer than the     *)
(* 30-day cutoff, and writes the remaining rows under processed/.         *)
(*                                                                         *)
(* Text is a sequence of one-character strings, so that strip, lower,      *)
(* replace, unquote_plus and strptime are computed character by character. *)
(* A CSV line is the sequence of its fields as csv.reader tokenises it     *)
(* (<<>> is a blank line).  An optional value is None (<<>>) or Some(v).   *)
(***************************************************************************)
EXTENDS Integers, Sequences, FiniteSets, TLC

\* ------------------------------------------------------------------ bounds
\* largest number of lines after the header line in a stored object
MaxRows == 2

\* ------------------------------------------------------- optional values
None == <<>>
Some(v) == <<v>>
\* Python's `x or ""` for an optional text
OrEmpty(o) == IF o = None THEN <<>> ELSE o[1]

\* ------------------------------------------------------- text primitives
UpperChars == <<"A","B","C","D","E","F","G","H","I","J","K","L","M",
                "N","O","P","Q","R","S","T","U","V","W","X","Y","Z">>
LowerChars == <<"a","b","c","d","e","f","g","h","i","j","k","l","m",
                "n","o","p","q","r","s","t","u","v","w","x","y","z">>
DigitChars == <<"0","1","2","3","4","5","6","7","8","9">>
\* characters str.strip() removes at both ends
Whitespace == {" ", "\t"}

LowerChar(c) ==
    IF \E i \in 1..26 : UpperChars[i] = c
    THEN LowerChars[CHOOSE i \in 1..26 : UpperChars[i] = c]
    ELSE c

\* str.lower()
lower(s) == [i \in 1..Len(s) |-> LowerChar(s[i])]

\* str.strip(): drop leading and trailing whitespace
strip(s) ==
    LET keep == {i \in 1..Len(s) : s[i] \notin Whitespace}
    IN  IF keep = {} THEN <<>>
        ELSE LET lo == CHOOSE i \in keep : \A j \in keep : i <= j
                 hi == CHOOSE i \in keep : \A j \in keep : i >= j
             IN  SubSeq(s, lo, hi)

\* str.replace(c, "") for a one-character c
remove_char(s, c) == SelectSeq(s, LAMBDA x : x # c)

\* does text `old` occur in s at position p
OccursAt(s, old, p) ==
    /\ p >= 1
    /\ p + Len(old) - 1 <= Len(s)
    /\ SubSeq(s, p, p + Len(old) - 1) = old

\* ------------------------------------------------------------ dates
IsDigit(c) == \E i \in 1..10 : DigitChars[i] = c
DigitVal(c) == (CHOOSE i \in 1..10 : DigitChars[i] = c) - 1

\* the four entries of DATE_FORMATS, each as its sequence of directives
\* ("Y", "m", "d") and literal separators
DATE_FORMATS == << <<"Y","-","m","-","d">>,
                   <<"m","/","d","/","Y">>,
                   <<"Y","/","m","/","d">>,
                   <<"d","-","m","-","Y">> >>

\* Number of characters the regular expression of one format element
\* consumes at position p of s (0: no match).  %Y is \d\d\d\d, %m is
\* 1[0-2]|0[1-9]|[1-9], %d is 3[01]|[12]\d|0[1-9]|[1-9]| [1-9]; any other
\* element is a literal character.
MatchLen(el, s, p) ==
    LET has(k) == p + k - 1 <= Len(s)
        c1 == s[p]
        c2 == s[p + 1]
    IN  IF ~has(1) THEN 0
        ELSE IF el = "Y" THEN
            IF has(4) /\ \A k \in 0..3 : IsDigit(s[p + k]) THEN 4 ELSE 0
        ELSE IF el = "m" THEN
            IF has(2) /\ c1 = "1" /\ c2 \in {"0","1","2"} THEN 2
            ELSE IF has(2) /\ c1 = "0" /\ IsDigit(c2) /\ c2 # "0" THEN 2
            ELSE IF IsDigit(c1) /\ c1 # "0" THEN 1
            ELSE 0
        ELSE IF el = "d" THEN
            IF has(2) /\ c1 = "3" /\ c2 \in {"0","1"} THEN 2
            ELSE IF has(2) /\ c1 \in {"1","2"} /\ IsDigit(c2) THEN 2
            ELSE IF has(2) /\ c1 = "0" /\ IsDigit(c2) /\ c2 # "0" THEN 2
            ELSE IF IsDigit(c1) /\ c1 # "0" THEN 1
            ELSE IF has(2) /\ c1 = " " /\ IsDigit(c2) /\ c2 # "0" THEN 2
            ELSE 0
        ELSE IF c1 = el THEN 1 ELSE 0

\* int() of the digits of s[p .. p+n-1] (a leading space is skipped)
RECURSIVE NumAt(_, _, _)
NumAt(s, p, n) ==
    IF n = 0 THEN 0
    ELSE LET c == s[p + n - 1]
         IN  IF IsDigit(c) THEN NumAt(s, p, n - 1) * 10 + DigitVal(c)
             ELSE NumAt(s, p, n - 1)

\* Match the elements fmt[k..] against s from position p; acc collects the
\* numbers found.  The result is None when the text does not match the
\* format or characters remain after it, else Some of the record.
RECURSIVE MatchFrom(_, _, _, _, _)
MatchFrom(fmt, k, s, p, acc) ==
    IF k > Len(fmt) THEN
        IF p = Len(s) + 1 THEN Some(acc) ELSE None
    ELSE LET n == MatchLen(fmt[k], s, p)
         IN  IF n = 0 THEN None
             ELSE MatchFrom(fmt, k + 1, s, p + n,
                    IF fmt[k] \in {"Y", "m", "d"}
                    THEN [acc EXCEPT ![fmt[k]] = NumAt(s, p, n)]
                    ELSE acc)

is_leap(y) == y % 4 = 0 /\ (y % 100 # 0 \/ y % 400 = 0)

days_in_month(y, m) ==
    IF m = 2 THEN (IF is_leap(y) THEN 29 ELSE 28)
    ELSE IF m \in {4, 6, 9, 11} THEN 30 ELSE 31

RECURSIVE days_before_month(_, _)
days_before_month(y, m) ==
    IF m = 1 THEN 0
    ELSE days_before_month(y, m - 1) + days_in_month(y, m - 1)

days_before_year(y) ==
    (y - 1) * 365 + ((y - 1) \div 4) - ((y - 1) \div 100) + ((y - 1) \div 400)

\* proleptic Gregorian ordinal of a date, as date.toordinal()
toordinal(y, m, d) == days_before_year(y) + days_before_month(y, m) + d

\* A datetime is [days |-> ordinal, secs |-> second of the day].
\* datetime.strptime(s, fmt): None stands for the ValueError it raises
\* (no match, unconverted data, year 0, or a day the month does not have).
strptime(s, fmt) ==
    LET m == MatchFrom(fmt, 1, s, 1, [Y |-> 0, m |-> 0, d |-> 0])
    IN  IF m = None THEN None
        ELSE LET f == m[1]
             IN  IF f.Y < 1 \/ f.d > days_in_month(f.Y, f.m) THEN None
                 ELSE Some([days |-> toordinal(f.Y, f.m, f.d), secs |-> 0])

\* the loop of parse_date from format i on: the first format that parses
\* s.strip() returns
RECURSIVE try_formats(_, _)
try_formats(s, i) ==
    IF i > Len(DATE_FORMATS) THEN None
    ELSE LET r == strptime(strip(s), DATE_FORMATS[i])
         IN  IF r # None THEN r ELSE try_formats(s, i + 1)

\* parse_date(s); None stands for the ValueError raised when no format
\* parses s
parse_date(s) == try_formats(s, 1)

\* a > b on datetimes
dt_gt(a, b) == a.days > b.days \/ (a.days = b.days /\ a.secs > b.secs)

\* timedelta(days=30) of the cutoff
RetentionDays == 30

\* dt - timedelta(days=n)
minus_days(dt, n) == [days |-> dt.days - n, secs |-> dt.secs]

\* ------------------------------------------------------------ constants of the code
\* candidate "status"
c_status == <<"s","t","a","t","u","s">>

\* candidate "orderstatus"
c_orderstatus == <<"o","r","d","e","r","s","t","a","t","u","s">>

\* candidate "orderdate"
c_orderdate == <<"o","r","d","e","r","d","a","t","e">>

\* candidate "date"
c_date == <<"d","a","t","e">>

\* candidate "order_date"
c_order_date == <<"o","r","d","e","r","_","d","a","t","e">>

\* "pending"
s_pending == <<"p","e","n","d","i","n","g">>

\* "cancelled"
s_cancelled == <<"c","a","n","c","e","l","l","e","d">>

\* "raw/"
raw_slash == <<"r","a","w","/">>

\* "processed/"
processed_slash == <<"p","r","o","c","e","s","s","e","d","/">>

\* ------------------------------------------------------------ inputs
\* first lines of the stored objects (the header row as csv.reader splits it)
HeaderRows ==
    { <<<<"s","t","a","t","u","s">>, <<"d","a","t","e">>>>,   \* status,date
      <<<<"O","r","d","e","r"," ","D","a","t","e">>, <<"O","r","d","e","r","_","S","t","a","t","u","s">>, <<"i","d">>>>,   \* Order Date,Order_Status,id
      <<<<"S","T","A","T","U","S">>, <<"d","a","t","e">>, <<"s","t","a","t","u","s">>>>,   \* STATUS,date,status
      <<<<"S","t","a","t","u","s","\t">>, <<"o","r","d","e","r","_","d","a","t","e">>>>,   \* Status<TAB>,order_date
      <<<<"s","t","a","t","u","s">>, <<"O","r","d","e","r","D","a","t","e">>, <<"o","r","d","e","r"," ","s","t","a","t","u","s">>, <<"D","a","t","e">>>>,   \* status,OrderDate,order status,Date
      <<<<"i","d">>, <<"d","a","t","e">>>>,   \* id,date
      <<<<"s","t","a","t","u","s">>, <<"i","d">>>>,   \* status,id
      <<>> }   \* (blank line)

\* lines after the header, as csv.reader splits them
DataRows ==
    { <<<<"p","e","n","d","i","n","g">>, <<"2","0","2","4","-","0","1","-","3","1">>>>,   \* pending,2024-01-31
      <<<<" ","P","E","N","D","I","N","G"," ">>, <<" ","0","1","/","3","1","/","2","0","2","4"," ">>>>,   \*  PENDING , 01/31/2024 
      <<<<"c","a","n","c","e","l","l","e","d">>, <<"2","0","2","4","/","0","2","/","0","1">>>>,   \* cancelled,2024/02/01
      <<<<"C","a","n","c","e","l","l","e","d">>, <<"1","5","-","0","1","-","2","0","2","4">>>>,   \* Cancelled,15-01-2024
      <<<<"p","e","n","d","i","n","g">>, <<"n","o","t","-","a","-","d","a","t","e">>>>,   \* pending,not-a-date
      <<<<>>, <<"2","0","2","4","-","0","1","-","3","1">>>>,   \* ,2024-01-31
      <<<<"2","0","2","4","-","0","1","-","0","1">>>>,   \* 2024-01-01
      <<<<"s","h","i","p","p","e","d">>, <<"2","0","2","4","-","0","1","-","0","1">>, <<"p","e","n","d","i","n","g">>>>,   \* shipped,2024-01-01,pending
      <<>> }   \* (blank line)

\* URL-escaped object keys of the notification record
EncodedKeys ==
    { <<"d","r","a","w","/","r","a","w","/","a">>,   \* draw/raw/a
      <<"b","+","a">>,   \* b+a
      <<"r","a","w","%","2","F","a">> }   \* raw%2Fa

\* ------------------------------------------------------------ URL decoding
\* the printable ASCII characters, chr(32) .. chr(126); chr(96), which a
\* string of this language cannot hold, is shown as "?"
Ascii ==
    << " ","!","\"","#","$","%","&","'","(",")","*","+",",","-",".","/",
       "0","1","2","3","4","5","6","7","8","9",":",";","<","=",">","?",
       "@","A","B","C","D","E","F","G","H","I","J","K","L","M","N","O",
       "P","Q","R","S","T","U","V","W","X","Y","Z","[","\\","]","^","_",
       "?","a","b","c","d","e","f","g","h","i","j","k","l","m","n","o",
       "p","q","r","s","t","u","v","w","x","y","z","{","|","}","~" >>

HexChars == <<"0","1","2","3","4","5","6","7","8","9","a","b","c","d","e","f">>

IsHex(c) == \E i \in 1..16 : HexChars[i] = LowerChar(c)
HexVal(c) == (CHOOSE i \in 1..16 : HexChars[i] = LowerChar(c)) - 1

\* the character a percent-escape %c1c2 stands for; a byte outside printable
\* ASCII is shown as "?" (the keys of the model escape printable characters)
unhex(c1, c2) ==
    LET b == 16 * HexVal(c1) + HexVal(c2)
    IN  IF b >= 32 /\ b <= 126 THEN Ascii[b - 31] ELSE "?"

\* urllib.parse.unquote: a "%" followed by two hex digits is decoded, any
\* other "%" is left as it is
RECURSIVE unquote(_, _)
unquote(s, p) ==
    IF p > Len(s) THEN <<>>
    ELSE IF s[p] = "%" /\ p + 2 <= Len(s) /\ IsHex(s[p + 1]) /\ IsHex(s[p + 2])
         THEN <<unhex(s[p + 1], s[p + 2])>> \o unquote(s, p + 3)
         ELSE <<s[p]>> \o unquote(s, p + 1)

\* urllib.parse.unquote_plus: "+" becomes a space, then unquote
unquote_plus(s) ==
    unquote([i \in 1..Len(s) |-> IF s[i] = "+" THEN " " ELSE s[i]], 1)

\* str.replace(old, new, count): the leftmost `count` occurrences, scanning
\* from the left and resuming after each replaced occurrence
RECURSIVE replace(_, _, _, _)
replace(s, old, new, count) ==
    LET hits == {p \in 1..Len(s) : OccursAt(s, old, p)}
    IN  IF count = 0 \/ hits = {} THEN s
        ELSE LET p == CHOOSE q \in hits : \A r \in hits : q <= r
             IN  SubSeq(s, 1, p - 1) \o new \o
                 replace(SubSeq(s, p + Len(old), Len(s)), old, new, count - 1)

\* the replace of line 98 without its count: every occurrence is replaced
processed_key_of_all(key) == replace(key, raw_slash, processed_slash, Len(key))

\* processed_key = raw_key.replace("raw/", "processed/", 1)
processed_key_of(key) == replace(key, raw_slash, processed_slash, 1)

\* ------------------------------------------------------------ headers
\* (h or "").strip().lower().replace(" ", "").replace("_", "")
normalize(h) == remove_char(remove_char(lower(strip(h)), " "), "_")

\* header_map keeping the first header of each normalized name
header_map_of_first(names) ==
    [k \in {normalize(names[i]) : i \in 1..Len(names)} |->
        names[CHOOSE i \in 1..Len(names) :
                /\ normalize(names[i]) = k
                /\ \A j \in 1..Len(names) : normalize(names[j]) = k => j >= i]]

\* the dict comprehension of header_map: a later header overwrites an
\* earlier one with the same normalized name
header_map_of(names) ==
    [k \in {normalize(names[i]) : i \in 1..Len(names)} |->
        names[CHOOSE i \in 1..Len(names) :
                /\ normalize(names[i]) = k
                /\ \A j \in 1..Len(names) : normalize(names[j]) = k => j <= i]]

\* the candidate loops: the header of the first candidate found in hm
RECURSIVE first_candidate(_, _, _)
first_candidate(cands, k, hm) ==
    IF k > Len(cands) THEN None
    ELSE IF cands[k] \in DOMAIN hm THEN Some(hm[cands[k]])
    ELSE first_candidate(cands, k + 1, hm)

status_candidates == <<c_status, c_orderstatus>>

\* each candidate after cand.replace("_", "")
date_candidates ==
    <<remove_char(c_orderdate, "_"), remove_char(c_date, "_"),
      remove_char(c_order_date, "_")>>

find_status_key(hm) == first_candidate(status_candidates, 1, hm)

find_date_key(hm) == first_candidate(date_candidates, 1, hm)

\* Python's `not key` for an optional text
falsy(o) == IF o = None THEN TRUE ELSE o[1] = <<>>

\* the test of line 58 with `and` for `or`
columns_missing_both(sk, dk) == IF falsy(sk) THEN falsy(dk) ELSE FALSE

\* the test of line 58
columns_missing(sk, dk) == IF falsy(sk) THEN TRUE ELSE falsy(dk)

\* ------------------------------------------------------------ csv.DictReader
\* index of the next line that is not blank after line pos (0: StopIteration)
next_index(ls, pos) ==
    LET later == {i \in (pos + 1)..Len(ls) : ls[i] # <<>>}
    IN  IF later = {} THEN 0
        ELSE CHOOSE i \in later : \A j \in later : i <= j

\* the dict DictReader builds from one line: dict(zip(fieldnames, row)), the
\* surplus fields under the key None (rest), the missing ones set to None
dict_row(names, row) ==
    LET lf == Len(names)
        lr == Len(row)
        last(k) == CHOOSE i \in 1..lf :
                      /\ names[i] = k
                      /\ \A j \in 1..lf : names[j] = k => j <= i
    IN  [d |-> [k \in {names[i] : i \in 1..lf} |->
                  IF last(k) <= lr THEN Some(row[last(k)]) ELSE None],
         rest |-> IF lf < lr THEN Some(SubSeq(row, lf + 1, lr)) ELSE None]

\* row.get(key)
row_get(r, key) == IF key \in DOMAIN r.d THEN r.d[key] ELSE None

\* ------------------------------------------------------------ row filter
\* status_raw = (row.get(status_key) or "").strip().lower()
status_raw_of(r, sk) == lower(strip(OrEmpty(row_get(r, sk))))

\* date_raw = (row.get(date_key) or "").strip()
date_raw_of(r, dk) == strip(OrEmpty(row_get(r, dk)))

\* keep_row with >= for >: a row dated exactly at the cutoff is kept
keep_row_ge(status_raw, order_dt, cut) ==
    status_raw \notin {s_pending, s_cancelled} \/ ~dt_gt(cut, order_dt)

\* the condition of line 82
keep_row(status_raw, order_dt, cut) ==
    status_raw \notin {s_pending, s_cancelled} \/ dt_gt(order_dt, cut)

\* row_verdict without the `continue` of line 78: a row whose date does not
\* parse is kept
row_verdict_bad_date_kept(r, sk, dk, cut) ==
    LET order_dt == parse_date(date_raw_of(r, dk))
    IN  IF order_dt = None THEN "keep"
        ELSE IF keep_row(status_raw_of(r, sk), order_dt[1], cut) THEN "keep"
        ELSE "drop"

\* what lines 71-85 do with one row dict: "skip" (the date does not parse),
\* "keep" or "drop"
row_verdict(r, sk, dk, cut) ==
    LET order_dt == parse_date(date_raw_of(r, dk))
    IN  IF order_dt = None THEN "skip"
        ELSE IF keep_row(status_raw_of(r, sk), order_dt[1], cut) THEN "keep"
        ELSE "drop"

\* filtered_out_after without the increment of line 77
filtered_out_after_drop_only(verdict, n) ==
    IF verdict = "drop" THEN n + 1 ELSE n

\* filtered_out after a row: incremented at line 77 (skip) and line 85 (drop)
filtered_out_after(verdict, n) == IF verdict = "keep" THEN n ELSE n + 1

\* kept_rows after a row: appended to at line 83
kept_rows_after(verdict, rows, r) ==
    IF verdict = "keep" THEN Append(rows, r) ELSE rows

\* ------------------------------------------------------------ csv.DictWriter
\* extrasaction="raise": a key of the row that is no fieldname (the key None
\* of the surplus fields) makes writerows raise ValueError
wrong_fields(r) == r.rest # None

\* the fields written for one dict: the value of each fieldname, None as ""
dict_to_list(names, r) ==
    [i \in 1..Len(names) |-> OrEmpty(row_get(r, names[i]))]

\* the rows of out_buf: the header line, then one line for each kept row
serialize(names, rows) ==
    <<names>> \o [i \in 1..Len(rows) |-> dict_to_list(names, rows[i])]

\* ------------------------------------------------------------ the world
\* every sequence over S of length at most n
SeqsUpTo(S, n) == UNION {[1..k -> S] : k \in 0..n}

\* what get_object can return, as the list `lines`: an object without any
\* line, or a header line followed by at most MaxRows lines
Objects ==
    {<<>>} \cup {<<h>> \o rs : h \in HeaderRows, rs \in SeqsUpTo(DataRows, MaxRows)}

\* values of datetime.now(): midnight and noon of 2024-03-01, so that the
\* cutoff falls on 2024-01-31 at 00:00:00 and at 12:00:00
Nows ==
    {[days |-> toordinal(2024, 3, 1), secs |-> s] : s \in {0, 43200}}

\* the notification events: one record with a bucket name and an escaped key
Events ==
    {[Records |-> <<[s3 |-> [bucket |-> [name |-> "orders"],
                             object |-> [key |-> k]]]>>] : k \in EncodedKeys}

\* the exceptions of the read: get_object's, or decode("utf-8")'s
ReadErrors == {"GetObjectError", "UnicodeDecodeError"}

NoResult == [statusCode |-> 0, text |-> "", kept |-> 0, total |-> 0, key |-> <<>>]

\* ------------------------------------------------------------ state
VARIABLES
    pc,            \* stage of lambda_handler the invocation is at
    event,         \* the argument of lambda_handler
    bucket,        \* bucket name taken from the event
    raw_key,       \* the decoded object key
    lines,         \* the lines of the object read
    fieldnames,    \* reader.fieldnames
    reader_pos,    \* number of lines the DictReader has consumed
    header_map,    \* normalized header -> original header
    status_key,    \* None or Some(header)
    date_key,      \* None or Some(header)
    cutoff,        \* datetime.now() - timedelta(days=30)
    kept_rows,     \* the row dicts kept so far
    total,         \* rows seen
    filtered_out,  \* rows dropped
    processed_key, \* destination key
    get_calls,     \* the get_object calls made, in order
    put_calls,     \* the put_object calls made, in order
    written,       \* the put_object calls that succeeded
    result,        \* the value returned by lambda_handler
    error          \* the exception lambda_handler raised ("" if none)

vars == <<pc, event, bucket, raw_key, lines, fieldnames, reader_pos,
          header_map, status_key, date_key, cutoff, kept_rows, total,
          filtered_out, processed_key, get_calls, put_calls, written,
          result, error>>

Init ==
    /\ pc = "start"
    /\ event \in Events
    /\ bucket = ""
    /\ raw_key = <<>>
    /\ lines = <<>>
    /\ fieldnames = <<>>
    /\ reader_pos = 0
    /\ header_map = <<>>
    /\ status_key = None
    /\ date_key = None
    /\ cutoff = [days |-> 0, secs |-> 0]
    /\ kept_rows = <<>>
    /\ total = 0
    /\ filtered_out = 0
    /\ processed_key = <<>>
    /\ get_calls = <<>>
    /\ put_calls = <<>>
    /\ written = <<>>
    /\ result = NoResult
    /\ error = ""

\* lines 21-26: take bucket and key from the first record, decode the key
Start ==
    /\ pc = "start"
    /\ bucket' = event.Records[1].s3.bucket.name
    /\ raw_key' = unquote_plus(event.Records[1].s3.object.key)
    /\ pc' = "fetch"
    /\ UNCHANGED <<event, lines, fieldnames, reader_pos, header_map,
                   status_key, date_key, cutoff, kept_rows, total,
                   filtered_out, processed_key, get_calls, put_calls,
                   written, result, error>>

\* lines 29-31: get_object succeeds and the body decodes
GetObjectOk ==
    /\ pc = "fetch"
    /\ get_calls' = Append(get_calls, [Bucket |-> bucket, Key |-> raw_key])
    /\ \E body \in Objects : lines' = body
    /\ pc' = "parse"
    /\ UNCHANGED <<event, bucket, raw_key, fieldnames, reader_pos, header_map,
                   status_key, date_key, cutoff, kept_rows, total,
                   filtered_out, processed_key, put_calls, written, result,
                   error>>

\* lines 29-34: get_object or the decoding raises; the exception is re-raised
GetObjectFails ==
    /\ pc = "fetch"
    /\ get_calls' = Append(get_calls, [Bucket |-> bucket, Key |-> raw_key])
    /\ \E e \in ReadErrors : error' = e
    /\ pc' = "raised"
    /\ UNCHANGED <<event, bucket, raw_key, lines, fieldnames, reader_pos,
                   header_map, status_key, date_key, cutoff, kept_rows, total,
                   filtered_out, processed_key, put_calls, written, result>>

\* the handler without the test of line 36: an object without lines goes on
\* to the writer
EmptyFileWritesOutput ==
    /\ pc = "parse"
    /\ lines = <<>>
    /\ pc' = "serialize"
    /\ UNCHANGED <<event, bucket, raw_key, lines, fieldnames, reader_pos,
                   header_map, status_key, date_key, cutoff, kept_rows, total,
                   filtered_out, processed_key, get_calls, put_calls, written,
                   result, error>>

\* lines 36-38: no line at all
EmptyFile ==
    /\ pc = "parse"
    /\ lines = <<>>
    /\ result' = [NoResult EXCEPT !.statusCode = 200, !.text = "Empty file"]
    /\ pc' = "returned"
    /\ UNCHANGED <<event, bucket, raw_key, lines, fieldnames, reader_pos,
                   header_map, status_key, date_key, cutoff, kept_rows, total,
                   filtered_out, processed_key, get_calls, put_calls, written,
                   error>>

\* lines 40-42: the DictReader takes the first line as fieldnames
ParseHeaders ==
    /\ pc = "parse"
    /\ lines # <<>>
    /\ fieldnames' = lines[1]
    /\ reader_pos' = 1
    /\ header_map' = header_map_of(lines[1])
    /\ pc' = "resolve"
    /\ UNCHANGED <<event, bucket, raw_key, lines, status_key, date_key,
                   cutoff, kept_rows, total, filtered_out, processed_key,
                   get_calls, put_calls, written, result, error>>

\* lines 45-60: a column is not found, KeyError
MissingColumns ==
    /\ pc = "resolve"
    /\ columns_missing(find_status_key(header_map), find_date_key(header_map))
    /\ status_key' = find_status_key(header_map)
    /\ date_key' = find_date_key(header_map)
    /\ error' = "KeyError"
    /\ pc' = "raised"
    /\ UNCHANGED <<event, bucket, raw_key, lines, fieldnames, reader_pos,
                   header_map, cutoff, kept_rows, total, filtered_out,
                   processed_key, get_calls, put_calls, written, result>>

\* lines 45-67: both columns found; counters and cutoff set
ResolveColumns ==
    /\ pc = "resolve"
    /\ ~columns_missing(find_status_key(header_map), find_date_key(header_map))
    /\ status_key' = find_status_key(header_map)
    /\ date_key' = find_date_key(header_map)
    /\ kept_rows' = <<>>
    /\ total' = 0
    /\ filtered_out' = 0
    /\ \E now \in Nows : cutoff' = minus_days(now, RetentionDays)
    /\ pc' = "filter"
    /\ UNCHANGED <<event, bucket, raw_key, lines, fieldnames, reader_pos,
                   header_map, processed_key, get_calls, put_calls, written,
                   result, error>>

\* lines 69-85: one iteration of the loop over the reader
FilterRow ==
    /\ pc = "filter"
    /\ next_index(lines, reader_pos) # 0
    /\ LET i == next_index(lines, reader_pos)
           row == dict_row(fieldnames, lines[i])
           verdict == row_verdict(row, status_key[1], date_key[1], cutoff)
       IN  /\ reader_pos' = i
           /\ total' = total + 1
           /\ filtered_out' = filtered_out_after(verdict, filtered_out)
           /\ kept_rows' = kept_rows_after(verdict, kept_rows, row)
    /\ UNCHANGED <<pc, event, bucket, raw_key, lines, fieldnames, header_map,
                   status_key, date_key, cutoff, processed_key, get_calls,
                   put_calls, written, result, error>>

\* lines 69, 87: the reader is exhausted
EndOfRows ==
    /\ pc = "filter"
    /\ next_index(lines, reader_pos) = 0
    /\ reader_pos' = Len(lines)
    /\ pc' = "serialize"
    /\ UNCHANGED <<event, bucket, raw_key, lines, fieldnames, header_map,
                   status_key, date_key, cutoff, kept_rows, total,
                   filtered_out, processed_key, get_calls, put_calls, written,
                   result, error>>

\* lines 90-98: header and kept rows go to out_buf, the destination key is
\* derived
Serialize ==
    /\ pc = "serialize"
    /\ \A i \in 1..Len(kept_rows) : ~wrong_fields(kept_rows[i])
    /\ processed_key' = processed_key_of(raw_key)
    /\ pc' = "write"
    /\ UNCHANGED <<event, bucket, raw_key, lines, fieldnames, reader_pos,
                   header_map, status_key, date_key, cutoff, kept_rows, total,
                   filtered_out, get_calls, put_calls, written, result, error>>

\* lines 93-94: writerows raises ValueError on a kept row that has surplus
\* fields; nothing catches it
SerializeFails ==
    /\ pc = "serialize"
    /\ \E i \in 1..Len(kept_rows) : wrong_fields(kept_rows[i])
    /\ error' = "ValueError"
    /\ pc' = "raised"
    /\ UNCHANGED <<event, bucket, raw_key, lines, fieldnames, reader_pos,
                   header_map, status_key, date_key, cutoff, kept_rows, total,
                   filtered_out, processed_key, get_calls, put_calls, written,
                   result>>

\* the arguments of put_object (lines 102-107)
put_request ==
    [Bucket |-> bucket, Key |-> processed_key,
     Body |-> serialize(fieldnames, kept_rows),
     ContentType |-> "text/csv; charset=utf-8"]

\* lines 101-108, 113-116: the put succeeds and the summary is returned
PutObjectOk ==
    /\ pc = "write"
    /\ put_calls' = Append(put_calls, put_request)
    /\ written' = Append(written, put_request)
    /\ result' = [statusCode |-> 200, text |-> "Kept",
                  kept |-> Len(kept_rows), total |-> total,
                  key |-> processed_key]
    /\ pc' = "returned"
    /\ UNCHANGED <<event, bucket, raw_key, lines, fieldnames, reader_pos,
                   header_map, status_key, date_key, cutoff, kept_rows, total,
                   filtered_out, processed_key, get_calls, error>>

\* the handler of lines 109-111 without its `raise`: the failure is swallowed
\* and the summary returned
PutObjectFailsSwallowed ==
    /\ pc = "write"
    /\ put_calls' = Append(put_calls, put_request)
    /\ result' = [statusCode |-> 200, text |-> "Kept",
                  kept |-> Len(kept_rows), total |-> total,
                  key |-> processed_key]
    /\ pc' = "returned"
    /\ UNCHANGED <<event, bucket, raw_key, lines, fieldnames, reader_pos,
                   header_map, status_key, date_key, cutoff, kept_rows, total,
                   filtered_out, processed_key, get_calls, written, error>>

\* lines 101-111: the put raises; the exception is re-raised
PutObjectFails ==
    /\ pc = "write"
    /\ put_calls' = Append(put_calls, put_request)
    /\ error' = "PutObjectError"
    /\ pc' = "raised"
    /\ UNCHANGED <<event, bucket, raw_key, lines, fieldnames, reader_pos,
                   header_map, status_key, date_key, cutoff, kept_rows, total,
                   filtered_out, processed_key, get_calls, written, result>>

Next ==
    \/ Start
    \/ GetObjectOk
    \/ GetObjectFails
    \/ EmptyFile
    \/ ParseHeaders
    \/ MissingColumns
    \/ ResolveColumns
    \/ FilterRow
    \/ EndOfRows
    \/ Serialize
    \/ SerializeFails
    \/ PutObjectOk
    \/ PutObjectFails

Spec == Init /\ [][Next]_vars

\* ============================================================ properties
\* Helpers of the properties.  They read the lines of the object by column
\* position, not through the row dicts of the handler.

Terminal == {s_pending, s_cancelled}

\* the column a header name stands for: its last occurrence in the header
ColIndex(names, key) ==
    CHOOSE i \in 1..Len(names) :
        /\ names[i] = key
        /\ \A j \in 1..Len(names) : names[j] = key => j <= i

\* the field of a line in column c, "" when the line is too short
FieldAt(line, c) == IF c <= Len(line) THEN line[c] ELSE <<>>

\* trimmed, lower-cased status of a line, read from the column named sk
LineStatus(line, sk) == lower(strip(FieldAt(line, ColIndex(fieldnames, sk))))

\* parsed date of a line, read from the column named dk
LineDate(line, dk) == parse_date(FieldAt(line, ColIndex(fieldnames, dk)))

\* dt is not strictly after the cutoff
NotAfterCutoff(dt) ==
    dt.days < cutoff.days \/ (dt.days = cutoff.days /\ dt.secs <= cutoff.secs)

\* the retention rule: a line is excluded when its date does not parse, or
\* when its status is terminal and its date is not after the cutoff
LineDropped(line, sk, dk) ==
    LET dt == LineDate(line, dk)
    IN  IF dt = None THEN TRUE
        ELSE LineStatus(line, sk) \in Terminal /\ NotAfterCutoff(dt[1])

\* the lines after the header that are not blank, among the first n lines
DataLines(n) == SelectSeq(SubSeq(lines, 2, n), LAMBDA l : l # <<>>)

\* a step of the row loop, and the line it handles
RowStep == pc = "filter" /\ total' = total + 1

GetSucceeded == get_calls # <<>> /\ error \notin ReadErrors

ColumnsResolved == status_key # None /\ date_key # None /\ error # "KeyError"

KeptSoFar ==
    LET ls == SelectSeq(DataLines(reader_pos),
                 LAMBDA l : ~LineDropped(l, status_key[1], date_key[1]))
    IN  kept_rows = [i \in 1..Len(ls) |-> dict_row(fieldnames, ls[i])]

\* C2: a data row whose date matches none of the formats (an empty or absent
\* date included) is left out of the kept rows and adds exactly one to
\* filtered_out, whatever its status; the loop goes on without an error, and
\* the rows after it are filtered as if it were not there.
C2_BadDateSkipped ==
    /\ [](pc = "filter" => KeptSoFar)
    /\ [][/\ (RowStep /\ LineDate(lines[reader_pos'], date_key[1]) = None) =>
               /\ kept_rows' = kept_rows
               /\ filtered_out' = filtered_out + 1
               /\ pc' = "filter"
               /\ error' = ""
          /\ pc \in {"filter", "serialize", "write"} =>
               (RowStep \/ kept_rows' = kept_rows)]_vars

\* a row with an unparseable date was skipped and the row after it was kept
C2_Witness ==
    /\ pc = "returned"
    /\ Len(lines) = 3
    /\ LineDate(lines[2], date_key[1]) = None
    /\ LineStatus(lines[2], status_key[1]) \in Terminal
    /\ filtered_out = 1
    /\ Len(kept_rows) = 1
    /\ Len(written) = 1

\* ---------------------------------------------------------------- C3
\* some header normalizes to one of the candidate names
HasColumn(names, cands) == \E i \in 1..Len(names) : normalize(names[i]) \in cands

HasStatusColumn == HasColumn(fieldnames, {c_status, c_orderstatus})

HasDateColumn == HasColumn(fieldnames, {c_orderdate, c_date})

\* C3: when the header has no status column or no date column, the handler
\* raises the missing-column error before any data row is examined: no row
\* is read, no counter changes and no put is made.
C3_MissingColumnFatal ==
    (reader_pos >= 1 /\ (~HasStatusColumn \/ ~HasDateColumn)) =>
        /\ pc \in {"resolve", "raised"}
        /\ pc = "raised" => error = "KeyError"
        /\ reader_pos = 1
        /\ total = 0
        /\ filtered_out = 0
        /\ kept_rows = <<>>
        /\ put_calls = <<>>
        /\ written = <<>>

\* the error was raised for a header that has a status column but no date
\* column, on an object that has data rows
C3_Witness ==
    /\ pc = "raised"
    /\ error = "KeyError"
    /\ Len(lines) > 1
    /\ HasStatusColumn
    /\ ~HasDateColumn

\* ---------------------------------------------------------------- C4
\* C4 as stated: whenever the object read has no data line (nothing after
\* its header line), the handler returns status code 200 and makes no put.
C4_NoDataLinesNoPut ==
    (pc \in {"returned", "raised"} /\ GetSucceeded /\ Len(lines) <= 1) =>
        /\ pc = "returned"
        /\ result.statusCode = 200
        /\ put_calls = <<>>

\* C4, amended: whenever the object read has no line at all, the handler
\* returns status code 200 and makes no put.
C4_NoLinesNoPut ==
    (pc \notin {"start", "fetch"} /\ GetSucceeded /\ lines = <<>>) =>
        /\ pc \in {"parse", "returned"}
        /\ pc = "returned" => result.statusCode = 200
        /\ error = ""
        /\ put_calls = <<>>
        /\ written = <<>>

\* the handler returned on an object without lines
C4_Witness ==
    /\ pc = "returned"
    /\ GetSucceeded
    /\ lines = <<>>
    /\ result.statusCode = 200
    /\ result.text = "Empty file"

C6_RoundTrip ==
    (/\ pc \in {"returned", "raised"}
     /\ GetSucceeded
     /\ ColumnsResolved
     /\ error # "PutObjectError"
     /\ \A i \in 2..Len(lines) :
            lines[i] # <<>> => ~LineDropped(lines[i], status_key[1], date_key[1]))
    => /\ Len(written) = 1
       /\ written[1].Body = <<lines[1]>> \o DataLines(Len(lines))

\* ---------------------------------------------------------------- C7
StageRank(p) ==
    CASE p = "start" -> 0
      [] p = "fetch" -> 1
      [] p = "parse" -> 2
      [] p = "resolve" -> 3
      [] p = "filter" -> 4
      [] p = "serialize" -> 5
      [] p = "write" -> 6
      [] OTHER -> 7

\* C7: the stages run in the order fetch, parse, resolve, filter, serialize,
\* write, return, with at most one get and at most one put; a put is made
\* only after the get succeeded, both columns were resolved and every row
\* was filtered; a failing get or put is raised to the caller and not
\* retried, a failing get is never followed by a put, and a success result
\* is returned only after the put succeeded or for an object without lines.
C7_StageOrder ==
    /\ [](/\ Len(get_calls) <= 1
          /\ Len(put_calls) <= 1
          /\ put_calls # <<>> =>
                /\ GetSucceeded
                /\ status_key # None
                /\ date_key # None
                /\ next_index(lines, reader_pos) = 0
                /\ total = Len(DataLines(Len(lines)))
          /\ error \in ReadErrors => put_calls = <<>>
          /\ error # "" => (pc = "raised" /\ result = NoResult)
          /\ result.statusCode = 200 =>
                /\ pc = "returned"
                /\ \/ Len(written) = 1
                   \/ (result.text = "Empty file" /\ lines = <<>>
                         /\ put_calls = <<>>))
    /\ [][/\ StageRank(pc') >= StageRank(pc)
          /\ pc \in {"returned", "raised"} => pc' = pc
          /\ (get_calls' # get_calls /\ pc' # "parse") =>
                (pc' = "raised" /\ error' \in ReadErrors)
          /\ (put_calls' # put_calls /\ written' = written) =>
                (pc' = "raised" /\ error' = "PutObjectError")]_vars

\* a summary was returned after a put that followed the filtering of two rows
C7_Witness ==
    /\ pc = "returned"
    /\ Len(get_calls) = 1
    /\ Len(written) = 1
    /\ total = 2

\* ---------------------------------------------------------------- C8
\* the header picked for a candidate pair: the last header normalized (by
\* nm) to `first`, else the last one normalized to `second`, else None
PickColumn(names, nm, first, second) ==
    LET last(k) == names[CHOOSE i \in 1..Len(names) :
                           /\ nm[i] = k
                           /\ \A j \in 1..Len(names) : nm[j] = k => j <= i]
    IN  IF \E i \in 1..Len(names) : nm[i] = first THEN Some(last(first))
        ELSE IF \E i \in 1..Len(names) : nm[i] = second THEN Some(last(second))
        ELSE None

\* headers lower-cased with every space and underscore removed
NormalizedPlain(names) ==
    [i \in 1..Len(names) |-> remove_char(remove_char(lower(names[i]), " "), "_")]

\* headers trimmed of surrounding whitespace, lower-cased, with every space
\* and underscore removed
NormalizedTrimmed(names) ==
    [i \in 1..Len(names) |->
        remove_char(remove_char(lower(strip(names[i])), " "), "_")]

StatusColumn ==
    PickColumn(fieldnames, NormalizedTrimmed(fieldnames), c_status, c_orderstatus)

DateColumn ==
    PickColumn(fieldnames, NormalizedTrimmed(fieldnames), c_orderdate, c_date)

Counting ==
    \/ pc \in {"filter", "serialize", "write"}
    \/ (pc = "returned" /\ result.text = "Kept")
    \/ (pc = "raised" /\ error \in {"ValueError", "PutObjectError"})

\* C9: after every processed row, total is the number of data rows read so
\* far and total = len(kept_rows) + filtered_out, neither part decreasing;
\* in the summary, kept is the number of data rows written, total the
\* number of data rows of the input, and kept <= total.
C9_Counters ==
    /\ [](Counting =>
            /\ total = Len(DataLines(reader_pos))
            /\ total = Len(kept_rows) + filtered_out)
    /\ []((pc = "returned" /\ result.text = "Kept") =>
            /\ result.kept = Len(written[1].Body) - 1
            /\ result.total = Len(DataLines(Len(lines)))
            /\ result.kept <= result.total
            /\ result.key = written[1].Key)
    /\ [][/\ Len(kept_rows') >= Len(kept_rows)
          /\ filtered_out' >= filtered_out
          /\ total' >= total]_vars

\* a summary was returned for two data rows, one kept and one filtered out
C9_Witness ==
    /\ pc = "returned"
    /\ result.total = 2
    /\ result.kept = 1
    /\ filtered_out = 1

\* ---------------------------------------------------------------- C10
\* C10: once both columns are resolved, no content of the data rows aborts
\* the invocation: the put is reached, and the only failure possible is the
\* failure of the put.
C10_RowsNeverAbort ==
    (pc = "raised" /\ GetSucceeded /\ ColumnsResolved) =>
        (error = "PutObjectError" /\ put_calls # <<>>)

====
